---- MODULE Spec2Model ----
(***************************************************************************)
(* Image-to-ASCII renderer: the ImageProcessor pipeline                    *)
(* (src/src/processor/image_processor.py) as a state machine.              *)
(*                                                                         *)
(* Python floats are IEEE-754 binary64.  The renderer's arithmetic         *)
(* (255 / (len(chars) - 1), pixel / intensity_levels, height / width *     *)
(* width * 0.5, (r * 5) / 255, each followed by int()) is modelled         *)
(* bit-exactly: a float is a 53-bit mantissa held in four base-2^14 limbs  *)
(* (little-endian, top limb unreduced) and a binary exponent, and every    *)
(* operation rounds to nearest, ties to even, as the hardware does.        *)
(* Only non-negative finite values occur in the program.                   *)
(***************************************************************************)
EXTENDS Integers, Sequences, FiniteSets, TLC

\* ------------------------------------------------------------------------
\* binary64 arithmetic
\* ------------------------------------------------------------------------
LimbBase == 2^14
TopOne == 2^10            \* top limb of a normalised mantissa is in [2^10, 2^11)
NZero == <<0, 0, 0, 0>>
FZero == [m |-> NZero, e |-> 0]

\* 2x + b
NDbl(x, b) ==
  LET t1 == 2 * x[1] + b
      t2 == 2 * x[2] + (t1 \div LimbBase)
      t3 == 2 * x[3] + (t2 \div LimbBase)
      t4 == 2 * x[4] + (t3 \div LimbBase)
  IN  <<t1 % LimbBase, t2 % LimbBase, t3 % LimbBase, t4>>

\* floor(x / 2)
NHalf(x) ==
  <<(x[1] \div 2) + (x[2] % 2) * (LimbBase \div 2),
    (x[2] \div 2) + (x[3] % 2) * (LimbBase \div 2),
    (x[3] \div 2) + (x[4] % 2) * (LimbBase \div 2),
    x[4] \div 2>>

\* x + 1
NInc(x) ==
  LET t1 == x[1] + 1
      t2 == x[2] + (t1 \div LimbBase)
      t3 == x[3] + (t2 \div LimbBase)
      t4 == x[4] + (t3 \div LimbBase)
  IN  <<t1 % LimbBase, t2 % LimbBase, t3 % LimbBase, t4>>

NGeq(x, y) ==
  IF x[4] # y[4] THEN x[4] > y[4]
  ELSE IF x[3] # y[3] THEN x[3] > y[3]
  ELSE IF x[2] # y[2] THEN x[2] > y[2]
  ELSE x[1] >= y[1]

\* x - y, for x >= y
NSub(x, y) ==
  LET d1 == x[1] - y[1]
      b1 == IF d1 < 0 THEN 1 ELSE 0
      d2 == x[2] - y[2] - b1
      b2 == IF d2 < 0 THEN 1 ELSE 0
      d3 == x[3] - y[3] - b2
      b3 == IF d3 < 0 THEN 1 ELSE 0
  IN  <<d1 + b1 * LimbBase, d2 + b2 * LimbBase, d3 + b3 * LimbBase,
        x[4] - y[4] - b3>>

\* x * k for a small integer k (top limb left unreduced)
NMulSmall(x, k) ==
  LET t1 == x[1] * k
      t2 == x[2] * k + (t1 \div LimbBase)
      t3 == x[3] * k + (t2 \div LimbBase)
      t4 == x[4] * k + (t3 \div LimbBase)
  IN  <<t1 % LimbBase, t2 % LimbBase, t3 % LimbBase, t4>>

\* floor(log2(n)) for 1 <= n < 2^30
Log2(n) == CHOOSE k \in 0..29 : 2^k <= n /\ n < 2^(k + 1)

\* floor(x / 2^s) for 0 <= s <= 14
NShr(x, s) ==
  LET lo == 2^s
      hi == 2^(14 - s)
  IN  <<(x[1] \div lo) + (x[2] % lo) * hi,
        (x[2] \div lo) + (x[3] % lo) * hi,
        (x[3] \div lo) + (x[4] % lo) * hi,
        x[4] \div lo>>

\* Round to nearest, ties to even: m is the mantissa truncated to 53 bits,
\* rb the first discarded bit, sticky whether any later discarded bit is set.
FRound(m, e, rb, sticky) ==
  LET up == rb = 1 /\ (sticky \/ m[1] % 2 = 1)
      m1 == IF up THEN NInc(m) ELSE m
  IN  IF m1[4] >= 2 * TopOne
      THEN [m |-> NHalf(m1), e |-> e + 1]
      ELSE [m |-> m1, e |-> e]

\* The float nearest to x * 2^e, for a number x of 53 to 67 bits; sticky
\* tells whether x itself is a truncation of the exact value.
FNormRound(x, e, sticky) ==
  LET s == Log2(x[4]) - 10
  IN  IF s = 0 THEN FRound(x, e, 0, sticky)
      ELSE FRound(NShr(x, s), e + s, (x[1] \div 2^(s - 1)) % 2,
                  sticky \/ x[1] % 2^(s - 1) # 0)

\* float(n) for an integer 0 <= n < 2^25: exact.
FromInt(n) ==
  IF n = 0 THEN FZero
  ELSE LET j == 24 - Log2(n)
           t == n * 2^j
       IN  [m |-> <<0, 0, t % LimbBase, t \div LimbBase>>, e |-> 0 - 28 - j]

\* One radix-2^7 step of the long division of mantissas.  st holds the
\* remainder and the quotient so far; the next digit is estimated from the
\* top limbs (never too large, at most two too small) and corrected against
\* the full remainder.
DivFix1(r1, d, q, k) ==
  IF NGeq(r1, d) THEN [rem |-> NSub(r1, d), q |-> q, digit |-> k + 1]
  ELSE [rem |-> r1, q |-> q, digit |-> k]

DivFix(r0, d, q, k) ==
  IF NGeq(r0, d) THEN DivFix1(NSub(r0, d), d, q, k + 1)
  ELSE [rem |-> r0, q |-> q, digit |-> k]

DivEst(R, d, q, k) == DivFix(NSub(R, NMulSmall(d, k)), d, q, k)

DivScaled(R, d, q) == DivEst(R, d, q, R[4] \div (d[4] + 1))

\* q * 128 + digit
DivPush(m, s) == [rem |-> s.rem, q |-> <<m[1] + s.digit, m[2], m[3], m[4]>>]

DivStep(st, d) ==
  DivPush(NMulSmall(st.q, 128), DivScaled(NMulSmall(st.rem, 128), d, st.q))

\* The float nearest to st.q * 2^e, st.rem being what the division left.
FDivRound(st, e) == FNormRound(st.q, e, st.rem # NZero)

\* x / y for mantissas n >= d, n < 2d: the quotient floor(n * 2^56 / d) has
\* 57 bits, a leading one and eight radix-2^7 digits.
FDivMant(n, d, e) ==
  FDivRound(
    DivStep(DivStep(DivStep(DivStep(DivStep(DivStep(DivStep(DivStep(
      [rem |-> NSub(n, d), q |-> <<1, 0, 0, 0>>],
      d), d), d), d), d), d), d), d),
    e)

\* x / y (y non-zero), correctly rounded; the mantissa of x is doubled if it
\* is below that of y.
FDiv(x, y) ==
  IF x.m = NZero THEN FZero
  ELSE IF NGeq(x.m, y.m) THEN FDivMant(x.m, y.m, x.e - y.e - 56)
  ELSE FDivMant(NDbl(x.m, 0), y.m, x.e - y.e - 57)

\* x * k for an integer 1 <= k < 2^14 (float(k) is exact), correctly rounded.
FMulInt(x, k) ==
  IF x.m = NZero THEN FZero
  ELSE FNormRound(NMulSmall(x.m, k), x.e, FALSE)

\* x * 0.5: exact.
FHalf(x) == IF x.m = NZero THEN FZero ELSE [m |-> x.m, e |-> x.e - 1]

\* int(x): truncation toward zero, for 0 <= x < 2^28.
FTrunc(x) ==
  IF x.e < -52 THEN 0
  ELSE LET s == 0 - x.e
           a == s \div 14
           b == s % 14
           y == IF a = 1 THEN <<x.m[2], x.m[3], x.m[4]>>
                ELSE IF a = 2 THEN <<x.m[3], x.m[4], 0>>
                ELSE <<x.m[4], 0, 0>>
       IN  (y[1] \div 2^b) + y[2] * 2^(14 - b) + y[3] * 2^(28 - b)

\* ------------------------------------------------------------------------
\* Rendered text.  A Python string is a sequence of tokens: a character
\* (the newline included), a 256-colour escape "\033[38;5;<n>m" (fg) or
\* "\033[48;5;<n>m" (bg), or the reset "\033[0m".
\* ------------------------------------------------------------------------
Ch(c) == [t |-> "char", c |-> c, n |-> 0]
Esc(background, code) ==
  [t |-> IF background THEN "bg" ELSE "fg", c |-> "", n |-> code]
Reset == [t |-> "reset", c |-> "", n |-> 0]
Newline == Ch("\n")

\* len() of the Python string a token stands for
TokLen(tok) ==
  IF tok.t = "char" THEN 1
  ELSE IF tok.t = "reset" THEN 4
  ELSE 8 + (IF tok.n < 10 THEN 1 ELSE IF tok.n < 100 THEN 2 ELSE 3)

RECURSIVE StrLen(_)
StrLen(s) == IF s = <<>> THEN 0 ELSE TokLen(Head(s)) + StrLen(Tail(s))

\* ''.join(parts)
RECURSIVE Concat(_)
Concat(parts) ==
  IF parts = <<>> THEN <<>> ELSE Head(parts) \o Concat(Tail(parts))

\* Fault: the rows are joined without the newline.
JoinLines_mut(rows) == Concat(rows)

\* '\n'.join(rows)
RECURSIVE JoinLines(_)
JoinLines(rows) ==
  IF rows = <<>> THEN <<>>
  ELSE IF Len(rows) = 1 THEN rows[1]
  ELSE rows[1] \o <<Newline>> \o JoinLines(Tail(rows))

\* ------------------------------------------------------------------------
\* Bounds of the model and the inputs drawn from them
\* ------------------------------------------------------------------------
MaxSrc == 2        \* source images are 1..MaxSrc pixels wide and high
MaxWidth == 3      \* requested widths 1..MaxWidth in the rendering pipeline
MaxSeed == 1       \* image contents: sample rows rotated by 0..MaxSeed
MaxDim == 14       \* source sides 1..MaxDim when only the resize is run
MaxSegSrc == 3     \* source sides 1..MaxSegSrc when the segmentation result varies
MaxFrames == 3     \* multi-frame sources have 1..MaxFrames frames
AppWidths == {2, 3}  \* widths configured or passed to process_image
MaxT == 54         \* requested widths up to MaxT when only the resize is run

MAX_CHARS == 50
MaxIntensity == 255
DefaultWidth == 100
MaskThreshold == 128
MIN_CHARS == 2
MIN_SIZE == 10        \* validate_image_path: min_size, per side

DEFAULT_CHARS == <<"@", "#", "S", "%", "?", "*", "+", ";", ":", ",", ".">>

ColorModeNames == {"none", "foreground", "background", "both"}

\* Fifty distinct printable characters (the head of the DETAILED preset),
\* from which palettes of every legal length are cut.
Glyphs ==
  <<"$", "@", "B", "%", "8", "&", "W", "M", "#", "*", "o", "a", "h",
     "k", "b", "d", "p", "q", "w", "m", "Z", "O", "0", "Q", "L", "C",
     "J", "U", "Y", "X", "z", "c", "v", "u", "n", "x", "r", "j", "f",
     "t", "/", "\\", "|", "(", ")", "1", "{", "}", "[", "]">>

\* The chars argument of a call: <<>> stands for None / an empty list.
Palettes == {<<>>, <<"A", "B">>, <<"#", " ", ".">>, <<"X">>}

\* A bitmap of h rows and w columns whose pixels repeat the sequence px in
\* row-major order (what Image.open / resize / convert hand back is the
\* imaging library's business; this family stands for it).
NoBitmap == [w |-> 0, h |-> 0, px |-> <<>>]
PixelAt(bm, r, c) == bm.px[(((r - 1) * bm.w + (c - 1)) % Len(bm.px)) + 1]
InBitmap(bm, r, c) == r <= bm.h /\ c <= bm.w
Rotate(s, k) == [i \in 1..Len(s) |-> s[((i - 1 + k) % Len(s)) + 1]]

GraySamples == <<0, 127, 128, 255>>
MaskSamples == <<0, 127, 128, 255>>
ColorSamples == << <<0, 0, 0>>, <<255, 255, 255>>, <<40, 100, 240>> >>

VARIABLES
  pc,             \* "start", "segmented", "resized", "done", "error";
                  \* "idle" while no image_to_ascii call is running
  exc,            \* the exception image_to_ascii raised, or "none"
  image,          \* the opened source image: [w, h, seed]
  width,          \* requested width
  remove_bg, pattern_mode, color_mode,
  chars,          \* requested palette (<<>> for None)
  seg,            \* what _remove_background returned: [status, w, h, seed]
  warnings,       \* number of warnings printed
  gray_image,     \* resized grayscale bitmap
  alpha_mask,     \* resized opacity mask (NoBitmap without background removal)
  original_color, \* resized RGB bitmap
  ascii_str,      \* the list of rendered rows
  output,         \* the returned string
  char_proc,      \* a CharacterProcessor: [chars, default, aliased, exc]
  gif,            \* a process_gif generator and the files it created
  app             \* an ASCIIArtGenerator: its settings, the files on disk
                  \* and the process_image call in progress

vars == <<pc, exc, image, width, remove_bg, pattern_mode, color_mode, chars,
          seg, warnings, gray_image, alpha_mask, original_color, ascii_str,
          output, char_proc, gif, app>>

\* The characters of the model in code-point order (what list.sort compares).
CodePointOrder ==
  <<" ", "#", "$", "%", "&", "(", ")", "*", "+", ",", ".", "/", "0",
    "1", "8", ":", ";", "?", "@", "B", "C", "J", "L", "M", "O", "Q",
    "S", "U", "W", "X", "Y", "Z", "[", "\\", "]", "a", "b", "c", "d",
    "f", "h", "j", "k", "m", "n", "o", "p", "q", "r", "t", "u", "v",
    "w", "x", "z", "{", "|", "}">>

RankTable ==
  [c \in {CodePointOrder[i] : i \in 1..Len(CodePointOrder)} |->
     CHOOSE i \in 1..Len(CodePointOrder) : CodePointOrder[i] = c]

Rank(c) == RankTable[c]

\* list.reverse()
Reversed(s) == [i \in 1..Len(s) |-> s[Len(s) + 1 - i]]

\* list.sort(): the k-th element of the result is the character with fewer
\* than k smaller elements and at least k elements not larger.
Sorted(s) ==
  [k \in 1..Len(s) |->
     CHOOSE c \in {s[i] : i \in 1..Len(s)} :
       /\ Cardinality({i \in 1..Len(s) : Rank(s[i]) < Rank(c)}) < k
       /\ Cardinality({i \in 1..Len(s) : Rank(s[i]) <= Rank(c)}) >= k]

\* str.isspace() on the characters of the model
IsSpace(c) == c = " "

\* CharacterProcessor(): _chars is the instance's DEFAULT_CHARS list itself.
\* alive: the constructor returned an object; call: the last call made on
\* the processor, its argument and the palette it found.
NewCharProc ==
  [chars |-> DEFAULT_CHARS, default |-> DEFAULT_CHARS, aliased |-> TRUE,
   exc |-> "none", alive |-> TRUE,
   call |-> [op |-> "__init__", none |-> TRUE, s |-> <<>>, before |-> <<>>]]

\* No process_gif call has been made.
NoGif ==
  [state |-> "none", animated |-> FALSE, n_frames |-> 0, frame |-> 0,
   temp |-> {}, yielded |-> <<>>, exc |-> "none", requests |-> 0,
   sought |-> 0]

\* ------------------------------------------------------------------------
\* Values of the settings and their JSON documents
\* ------------------------------------------------------------------------
\* A Python value carries its type: json.dump and _update_settings change
\* the type of some of them.
IntV(n) == [t |-> "int", v |-> n]
NoneV == [t |-> "NoneType", v |-> 0]
StrV(x) == [t |-> "str", v |-> x]
PathV(x) == [t |-> "Path", v |-> x]
SetV(x) == [t |-> "set", v |-> x]
ListV(x) == [t |-> "list", v |-> x]
TupleV(x) == [t |-> "tuple", v |-> x]
DictV(x) == [t |-> "dict", v |-> x]

\* ApplicationSettings(): the dataclass defaults
DefaultSettings ==
  [width |-> IntV(DefaultWidth), height |-> NoneV,
   output_dir |-> PathV("output"),
   supported_image_formats |-> SetV({".png", ".gif"}),
   max_image_size |-> TupleV(<<5000, 5000>>),
   version |-> StrV("1.0.0")]

\* list(a_set): the elements in some order
Orders(S) ==
  {q \in [1..Cardinality(S) -> S] : {q[i] : i \in 1..Cardinality(S)} = S}

\* _settings_to_dict: paths become str, the format set a list
SettingsToDict(st, order) ==
  [width |-> st.width, height |-> st.height,
   output_dir |-> StrV(st.output_dir.v),
   supported_image_formats |-> ListV(order),
   max_image_size |-> st.max_image_size,
   version |-> st.version,
   last_modified |-> StrV("now")]

\* json.dump(value, default=str) of one value
JsonValue(x) ==
  IF x.t = "int" THEN [t |-> "number", v |-> x.v]
  ELSE IF x.t = "NoneType" THEN [t |-> "null", v |-> 0]
  ELSE IF x.t \in {"list", "tuple"} THEN [t |-> "array", v |-> x.v]
  ELSE [t |-> "string", v |-> x.v]

\* json.dump of the settings dictionary: the document in the file
JsonDump(d) == [k \in DOMAIN d |-> JsonValue(d[k])]

\* json.load of one value
PyValue(j) ==
  IF j.t = "number" THEN IntV(j.v)
  ELSE IF j.t = "null" THEN NoneV
  ELSE IF j.t = "array" THEN ListV(j.v)
  ELSE StrV(j.v)

JsonLoad(doc) == [k \in DOMAIN doc |-> PyValue(doc[k])]

\* Fault: max_image_size is taken from the document as the list it is.
UpdateSettings_mut(st, data) ==
  [width |-> data.width, height |-> data.height,
   output_dir |-> PathV(data.output_dir.v),
   supported_image_formats |->
     SetV({data.supported_image_formats.v[i] :
             i \in 1..Len(data.supported_image_formats.v)}),
   max_image_size |-> data.max_image_size,
   version |-> data.version]

\* _update_settings(data) for a document that has every key
UpdateSettings(st, data) ==
  [width |-> data.width, height |-> data.height,
   output_dir |-> PathV(data.output_dir.v),
   supported_image_formats |->
     SetV({data.supported_image_formats.v[i] :
             i \in 1..Len(data.supported_image_formats.v)}),
   max_image_size |-> TupleV(data.max_image_size.v),
   version |-> data.version]

\* SettingsManager(config_path) when the file exists: defaults, then
\* _load_settings
LoadSettings(doc) == UpdateSettings(DefaultSettings, JsonLoad(doc))

\* A process_image call: its arguments, the configured width it found,
\* and how it ended.
NoCall ==
  [phase |-> "idle", width_arg |-> 0, output_path |-> FALSE, default |-> 0,
   exc |-> "none", result |-> <<>>]

NoFile == [exists |-> FALSE, data |-> <<>>]

\* No ASCIIArtGenerator and no SettingsManager has been made.  configured:
\* the width the configuration holds; saved: the settings at the last save;
\* other: a manager constructed later on the same path; updated, writer:
\* the last update_ascii_art_settings width and who stored the width last;
\* out, meta: the output file and its .meta.json; saved_text, saved_meta:
\* the arguments of the last save_ascii_art.
NoApp ==
  [made |-> FALSE, settings |-> DefaultSettings, configured |-> 0,
   disk |-> JsonDump(SettingsToDict(DefaultSettings, <<".gif", ".png">>)),
   saved |-> DefaultSettings, other_made |-> FALSE, other |-> DefaultSettings,
   updated |-> 0, writer |-> "config", platform |-> "posix", out |-> NoFile,
   meta |-> [exists |-> FALSE, doc |-> [t |-> "null", v |-> 0]],
   saved_text |-> <<>>, saved_meta |-> NoneV, call |-> NoCall]

NoSeg == [status |-> "none", w |-> 0, h |-> 0, seed |-> 0]

\* chars = chars or self._default_chars
EffChars(cs) == IF cs = <<>> THEN DEFAULT_CHARS ELSE cs
\* width = width or self._width
EffWidth(w) == IF w = 0 THEN DefaultWidth ELSE w

\* ------------------------------------------------------------------------
\* Colour mapping (_rgb_to_256, _get_color_escape, the four colour modes)
\* ------------------------------------------------------------------------
\* Fault: six steps per channel instead of five.
ColorLevel_mut(v) == FTrunc(FDiv(FromInt(v * 6), FromInt(255)))

\* int((v * 5) / 255)
ColorLevel(v) == FTrunc(FDiv(FromInt(v * 5), FromInt(255)))

RgbTo256(r, g, b) == 16 + (36 * ColorLevel(r)) + (6 * ColorLevel(g)) + ColorLevel(b)

GetColorEscape(rgb, background) ==
  Esc(background, RgbTo256(rgb[1], rgb[2], rgb[3]))

Max2(a, b) == IF a >= b THEN a ELSE b
Min2(a, b) == IF a <= b THEN a ELSE b

\* bg_rgb = tuple(max(0, min(255, v + 20)) for v in rgb)
BgRgb(rgb) == [i \in 1..3 |-> Max2(0, Min2(255, rgb[i] + 20))]

\* Fault: mode both forgets the background escape.
BothColor_mut(ch, rgb) == <<GetColorEscape(rgb, FALSE), Ch(ch)>>

NoColor(ch, rgb) == <<Ch(ch)>>
ForegroundColor(ch, rgb) == <<GetColorEscape(rgb, FALSE), Ch(ch)>>
BackgroundColor(ch, rgb) == <<GetColorEscape(rgb, TRUE), Ch(ch)>>
BothColor(ch, rgb) ==
  <<GetColorEscape(rgb, FALSE), GetColorEscape(BgRgb(rgb), TRUE), Ch(ch)>>

\* self._color_modes[color_mode](char, rgb)
ApplyColor(mode, ch, rgb) ==
  IF mode = "none" THEN NoColor(ch, rgb)
  ELSE IF mode = "foreground" THEN ForegroundColor(ch, rgb)
  ELSE IF mode = "background" THEN BackgroundColor(ch, rgb)
  ELSE BothColor(ch, rgb)

\* ------------------------------------------------------------------------
\* Character selection and the two renderers
\* ------------------------------------------------------------------------
\* Fault: the bucket width is taken over len(chars) buckets.
IntensityLevels_mut(n) == FDiv(FromInt(255), FromInt(n))

\* intensity_levels = 255 / (len(chars) - 1), for len(chars) > 1
IntensityLevels(n) == FDiv(FromInt(MaxIntensity), FromInt(n - 1))

\* char_index = int(pixel / intensity_levels)
CharIndex(pixel, n) == FTrunc(FDiv(FromInt(pixel), IntensityLevels(n)))

\* Fault: the pattern is shifted by one column.
PatternIndex_mut(col_idx, n) == (col_idx + 1) % n

\* col_idx % len(chars), col_idx counted from 0
PatternIndex(col_idx, n) == col_idx % n

\* One pixel of either renderer past the mask test: the coloured character,
\* or the exception the pixel raises.
RenderPixel(r, c, gray, color, cs, pattern, mode) ==
  LET n == Len(cs)
  IN  IF ~pattern /\ n = 1
      THEN [err |-> "ZeroDivisionError", s |-> <<>>]
      ELSE LET idx == IF pattern THEN PatternIndex(c - 1, n)
                      ELSE CharIndex(PixelAt(gray, r, c), n)
           IN  IF idx >= n \/ ~InBitmap(color, r, c)
               THEN [err |-> "IndexError", s |-> <<>>]
               ELSE [err |-> "none",
                     s |-> ApplyColor(mode, cs[idx + 1], PixelAt(color, r, c))]

\* _convert_to_ascii: every pixel of the grayscale bitmap
PlainCell(r, c, gray, color, cs, pattern, mode) ==
  RenderPixel(r, c, gray, color, cs, pattern, mode)

\* Fault: the opacity test is off by one.
MaskedCell_mut(r, c, gray, mask, color, cs, pattern, mode) ==
  IF PixelAt(mask, r, c) < MaskThreshold - 1
  THEN [err |-> "none", s |-> <<Ch(" ")>>]
  ELSE RenderPixel(r, c, gray, color, cs, pattern, mode)

\* _convert_to_ascii_with_mask: a bare space where the mask is below 128
MaskedCell(r, c, gray, mask, color, cs, pattern, mode) ==
  IF PixelAt(mask, r, c) < MaskThreshold
  THEN [err |-> "none", s |-> <<Ch(" ")>>]
  ELSE RenderPixel(r, c, gray, color, cs, pattern, mode)

\* The grid of cells of one render, the first exception in row-major order,
\* the joined rows and the returned string.
FirstError(cells, h, w) ==
  LET bad == {k \in 0..(h * w - 1) : cells[(k \div w) + 1][(k % w) + 1].err # "none"}
  IN  IF bad = {} THEN "none"
      ELSE LET k == CHOOSE x \in bad : \A y \in bad : x <= y
           IN  cells[(k \div w) + 1][(k % w) + 1].err

JoinRows(cells, h, w) ==
  [r \in 1..h |-> Concat([c \in 1..w |-> cells[r][c].s])]

\* Fault: the reset is emitted in front of the text.
Finish_mut(rows) == <<Reset>> \o JoinLines(rows)

Finish(rows) == JoinLines(rows) \o <<Reset>>

\* ------------------------------------------------------------------------
\* image_to_ascii, step by step
\* ------------------------------------------------------------------------
\* Fault: the halving of the height is forgotten.
ResizeHeight_mut(w, h, target) ==
  FTrunc(FMulInt(FDiv(FromInt(h), FromInt(w)), target))

\* _resize_image: height = int(aspect_ratio * width * 0.5)
ResizeHeight(w, h, target) ==
  FTrunc(FHalf(FMulInt(FDiv(FromInt(h), FromInt(w)), target)))

\* The sizes the segmentation collaborator may hand back for a w x h input.
SegSizes(w, h) == {<<w, h>>, <<h, w>>}

\* Fault: the fallback mask is taken from the image instead of being all 255.
SegMask_mut(sg) == Rotate(MaskSamples, sg.seed)

\* Fault: the fallback mask is all background.
SegMask_zero(sg) ==
  IF sg.status = "rgba" THEN Rotate(MaskSamples, sg.seed)
  ELSE IF sg.status = "failed" THEN <<0>>
  ELSE <<255>>

\* The mask _remove_background returns next to the image: the alpha channel
\* of an RGBA result, otherwise (no alpha channel, or the call failed) a
\* new all-255 image of the returned image's size.
SegMask(sg) ==
  IF sg.status = "rgba" THEN Rotate(MaskSamples, sg.seed) ELSE <<255>>

Unchanged_call ==
  UNCHANGED <<image, width, remove_bg, pattern_mode, color_mode, chars,
              char_proc, gif, app>>

\* _remove_background: the collaborator fails (warning, original image,
\* all-255 mask) or returns an image with or without an alpha channel.
RemoveBackground ==
  /\ pc = "start" /\ remove_bg
  /\ \/ /\ seg' = [status |-> "failed", w |-> image.w, h |-> image.h,
                   seed |-> image.seed]
        /\ warnings' = warnings + 1
     \/ /\ \E sz \in SegSizes(image.w, image.h), sd \in 0..MaxSeed :
             seg' = [status |-> "rgba", w |-> sz[1], h |-> sz[2], seed |-> sd]
        /\ UNCHANGED warnings
     \/ /\ \E sz \in SegSizes(image.w, image.h) :
             seg' = [status |-> "rgb", w |-> sz[1], h |-> sz[2],
                     seed |-> image.seed]
        /\ UNCHANGED warnings
  /\ pc' = "segmented"
  /\ Unchanged_call
  /\ UNCHANGED <<exc, gray_image, alpha_mask, original_color, ascii_str, output>>

\* The three _resize_image calls and _to_grayscale.  Image.resize is handed
\* (width, height); for a height of 0 the imaging library either raises
\* ValueError or returns an empty bitmap.
ResizeAndGrayscale ==
  /\ \/ pc = "start" /\ ~remove_bg
     \/ pc = "segmented"
  /\ LET w  == EffWidth(width)
         sw == IF remove_bg THEN seg.w ELSE image.w
         sh == IF remove_bg THEN seg.h ELSE image.h
         gh == ResizeHeight(sw, sh, w)
         ch == ResizeHeight(image.w, image.h, w)
         gs == IF remove_bg THEN seg.seed ELSE image.seed
     IN  \E lenient \in BOOLEAN :
           IF ~lenient /\ (gh = 0 \/ ch = 0)
           THEN /\ pc' = "error"
                /\ exc' = "ValueError"
                /\ UNCHANGED <<gray_image, alpha_mask, original_color>>
           ELSE /\ pc' = "resized"
                /\ exc' = exc
                /\ gray_image' = [w |-> w, h |-> gh, px |-> Rotate(GraySamples, gs)]
                /\ alpha_mask' =
                     IF ~remove_bg THEN NoBitmap
                     ELSE [w |-> w, h |-> gh,
                           px |-> SegMask(seg)]
                /\ original_color' =
                     [w |-> w, h |-> ch, px |-> Rotate(ColorSamples, image.seed)]
  /\ Unchanged_call
  /\ UNCHANGED <<seg, warnings, ascii_str, output>>

\* The end of either renderer: the string, or the first exception raised.
Render(cells) ==
  LET h == gray_image.h
      w == gray_image.w
      e == FirstError(cells, h, w)
  IN  IF e # "none"
      THEN /\ pc' = "error"
           /\ exc' = e
           /\ UNCHANGED <<ascii_str, output>>
      ELSE /\ pc' = "done"
           /\ exc' = exc
           /\ ascii_str' = JoinRows(cells, h, w)
           /\ output' = Finish(ascii_str')

ConvertToAscii ==
  /\ pc = "resized" /\ ~remove_bg
  /\ Render([r \in 1..gray_image.h |-> [c \in 1..gray_image.w |->
        PlainCell(r, c, gray_image, original_color, EffChars(chars),
                  pattern_mode, color_mode)]])
  /\ Unchanged_call
  /\ UNCHANGED <<seg, warnings, gray_image, alpha_mask, original_color>>

ConvertToAsciiWithMask ==
  /\ pc = "resized" /\ remove_bg
  /\ Render([r \in 1..gray_image.h |-> [c \in 1..gray_image.w |->
        MaskedCell(r, c, gray_image, alpha_mask, original_color,
                   EffChars(chars), pattern_mode, color_mode)]])
  /\ Unchanged_call
  /\ UNCHANGED <<seg, warnings, gray_image, alpha_mask, original_color>>

\* ------------------------------------------------------------------------
\* Specifications
\* ------------------------------------------------------------------------
Fresh ==
  /\ pc = "start" /\ exc = "none" /\ seg = NoSeg /\ warnings = 0
  /\ gray_image = NoBitmap /\ alpha_mask = NoBitmap /\ original_color = NoBitmap
  /\ ascii_str = <<>> /\ output = <<>>
  /\ char_proc = NewCharProc
  /\ gif = NoGif
  /\ app = NoApp

\* One image_to_ascii call on a small image, every configuration.
Init ==
  /\ Fresh
  /\ image \in [w : 1..MaxSrc, h : 1..MaxSrc, seed : 0..MaxSeed]
  /\ width \in 1..MaxWidth
  /\ remove_bg \in BOOLEAN
  /\ pattern_mode \in BOOLEAN
  /\ color_mode \in ColorModeNames
  /\ chars \in Palettes

Next ==
  \/ RemoveBackground
  \/ ResizeAndGrayscale
  \/ ConvertToAscii
  \/ ConvertToAsciiWithMask

Spec == Init /\ [][Next]_vars

\* The state image_to_ascii is in after its resize step when a 1 x 2 source
\* is rendered one column wide (int(2 / 1 * 1 * 0.5) = 1 row): one pixel of
\* intensity p and colour rgb, opaque where a mask exists.
OnePixel(p, rgb) ==
  /\ pc = "resized" /\ exc = "none" /\ warnings = 0
  /\ image = [w |-> 1, h |-> 2, seed |-> 0]
  /\ width = 1
  /\ seg = IF remove_bg THEN [status |-> "rgb", w |-> 1, h |-> 2, seed |-> 0]
           ELSE NoSeg
  /\ gray_image = [w |-> 1, h |-> 1, px |-> <<p>>]
  /\ alpha_mask = IF remove_bg THEN [w |-> 1, h |-> 1, px |-> <<255>>]
                  ELSE NoBitmap
  /\ original_color = [w |-> 1, h |-> 1, px |-> <<rgb>>]
  /\ ascii_str = <<>> /\ output = <<>>
  /\ char_proc = NewCharProc
  /\ gif = NoGif
  /\ app = NoApp

NextRender == ConvertToAscii \/ ConvertToAsciiWithMask

\* Gradient selection: every legal palette length, every intensity.
InitGradient ==
  /\ remove_bg \in BOOLEAN
  /\ pattern_mode = FALSE
  /\ color_mode = "none"
  /\ \E n \in 2..MAX_CHARS : chars = SubSeq(Glyphs, 1, n)
  /\ \E p \in 0..MaxIntensity : OnePixel(p, <<p, p, p>>)

SpecGradient == InitGradient /\ [][NextRender]_vars

\* Colour mapping: every red value against the green and blue values at
\* which a level, or the level of the value raised by 20, changes.
ChannelEdges == {0, 40, 235, 255}

InitColor ==
  /\ remove_bg \in BOOLEAN
  /\ pattern_mode = TRUE
  /\ color_mode \in ColorModeNames
  /\ chars = <<"#">>
  /\ \E r \in 0..MaxIntensity, g \in ChannelEdges, b \in ChannelEdges :
       OnePixel(r, <<r, g, b>>)

SpecColor == InitColor /\ [][NextRender]_vars

\* The resize step alone, on larger sources and widths (0: the default).
InitResize ==
  /\ Fresh
  /\ image \in [w : 1..MaxDim, h : 1..MaxDim, seed : {0}]
  /\ width \in 0..MaxT
  /\ remove_bg = FALSE
  /\ pattern_mode = FALSE
  /\ color_mode = "none"
  /\ chars = <<>>

SpecResize == InitResize /\ [][ResizeAndGrayscale]_vars

\* ------------------------------------------------------------------------
\* CharacterProcessor
\* ------------------------------------------------------------------------
\* validate_chars(chars, min_chars, max_chars) on the characters of a string
\* (never empty entries; spaces and special characters allowed by default)
\* Fault: the lower bound is checked one too low.
ValidateChars_mut(cs, min_chars, max_chars) ==
  IF Len(cs) < min_chars - 1 THEN "ValidationError"
  ELSE IF Len(cs) > max_chars THEN "ValidationError"
  ELSE "none"

ValidateChars(cs, min_chars, max_chars) ==
  IF Len(cs) < min_chars THEN "ValidationError"
  ELSE IF Len(cs) > max_chars THEN "ValidationError"
  ELSE "none"

\* The characters of s in order of first occurrence.
Unique(s) ==
  [k \in 1..Cardinality({s[i] : i \in 1..Len(s)}) |->
     s[CHOOSE i \in 1..Len(s) :
         /\ \A j \in 1..(i - 1) : s[j] # s[i]
         /\ Cardinality({s[j] : j \in 1..i}) = k]]

\* Fault: the string is reduced to its distinct characters first.
SetCharsOn_unique(cp, arg) ==
  IF arg.none
  THEN [cp EXCEPT !.chars = cp.default, !.aliased = TRUE, !.exc = "none"]
  ELSE IF ValidateChars(Unique(arg.s), MIN_CHARS, MAX_CHARS) # "none"
  THEN [cp EXCEPT !.exc = ValidateChars(Unique(arg.s), MIN_CHARS, MAX_CHARS)]
  ELSE [cp EXCEPT !.chars = Unique(arg.s), !.aliased = FALSE, !.exc = "none"]

\* set_chars(chars); arg.none stands for chars = None.
SetCharsOn(cp, arg) ==
  IF arg.none
  THEN [cp EXCEPT !.chars = cp.default, !.aliased = TRUE, !.exc = "none"]
  ELSE IF ValidateChars(arg.s, MIN_CHARS, MAX_CHARS) # "none"
  THEN [cp EXCEPT !.exc = ValidateChars(arg.s, MIN_CHARS, MAX_CHARS)]
  ELSE [cp EXCEPT !.chars = arg.s, !.aliased = FALSE, !.exc = "none"]

\* An in-place edit of _chars also edits DEFAULT_CHARS while _chars is that
\* very list.
EditInPlace(cp, new) ==
  [cp EXCEPT !.chars = new,
             !.default = IF cp.aliased THEN new ELSE cp.default,
             !.exc = "none"]

ReverseCharsOn(cp) == EditInPlace(cp, Reversed(cp.chars))

SortCharsOn(cp, reverse) ==
  EditInPlace(cp, IF reverse THEN Reversed(Sorted(cp.chars)) ELSE Sorted(cp.chars))

RemoveSpacesOn(cp) ==
  [cp EXCEPT !.chars = SelectSeq(cp.chars, LAMBDA c : ~IsSpace(c)),
             !.aliased = FALSE, !.exc = "none"]

\* add_chars and apply_preset read self._preset_styles, which __init__
\* never creates: both raise AttributeError before changing anything.
AddCharsOn(cp, new_chars) == [cp EXCEPT !.exc = "AttributeError"]
ApplyPresetOn(cp, preset_name) == [cp EXCEPT !.exc = "AttributeError"]

\* The strings handed to the processor
CharStrings ==
  {<<>>, <<"a">>, <<"b", "a">>, <<"a", "a">>, <<"#", " ">>, <<" ", " ">>,
   <<" ", "b", " ", "a">>, Glyphs, Glyphs \o <<"a">>}

CharArgs ==
  {[none |-> TRUE, s |-> <<>>]} \cup {[none |-> FALSE, s |-> x] : x \in CharStrings}

PresetNames == {"BINARY", "DETAILED", "NOPE"}

Unchanged_render ==
  UNCHANGED <<pc, exc, image, width, remove_bg, pattern_mode, color_mode,
              chars, seg, warnings, gray_image, alpha_mask, original_color,
              ascii_str, output, gif, app>>

\* Record which call produced cp, on which palette.
Called(cp, op, none, s, before) ==
  [cp EXCEPT !.call = [op |-> op, none |-> none, s |-> s, before |-> before]]

\* CharacterProcessor(custom_chars): set_chars on an empty _chars; an
\* exception leaves the caller without an object.
Construct(arg) ==
  Called([SetCharsOn([NewCharProc EXCEPT !.chars = <<>>, !.aliased = FALSE], arg)
            EXCEPT !.alive =
              SetCharsOn([NewCharProc EXCEPT !.chars = <<>>, !.aliased = FALSE],
                         arg).exc = "none"],
         "__init__", arg.none, arg.s, <<>>)

SetChars ==
  /\ char_proc.alive
  /\ \E arg \in CharArgs :
       char_proc' = Called(SetCharsOn(char_proc, arg), "set_chars", arg.none,
                           arg.s, char_proc.chars)
  /\ Unchanged_render

ReverseChars ==
  /\ char_proc.alive
  /\ char_proc' = Called(ReverseCharsOn(char_proc), "reverse_chars", TRUE, <<>>,
                         char_proc.chars)
  /\ Unchanged_render

SortChars ==
  /\ char_proc.alive
  /\ \E reverse \in BOOLEAN :
       char_proc' = Called(SortCharsOn(char_proc, reverse), "sort_chars", TRUE,
                           <<>>, char_proc.chars)
  /\ Unchanged_render

RemoveSpaces ==
  /\ char_proc.alive
  /\ char_proc' = Called(RemoveSpacesOn(char_proc), "remove_spaces", TRUE, <<>>,
                         char_proc.chars)
  /\ Unchanged_render

AddChars ==
  /\ char_proc.alive
  /\ \E new_chars \in CharStrings :
       char_proc' = Called(AddCharsOn(char_proc, new_chars), "add_chars", FALSE,
                           new_chars, char_proc.chars)
  /\ Unchanged_render

ApplyPreset ==
  /\ char_proc.alive
  /\ \E preset_name \in PresetNames :
       char_proc' = Called(ApplyPresetOn(char_proc, preset_name), "apply_preset",
                           FALSE, <<>>, char_proc.chars)
  /\ Unchanged_render

\* The outcome of the constructor, for every argument.
InitChars ==
  /\ pc = "start" /\ exc = "none" /\ seg = NoSeg /\ warnings = 0
  /\ gray_image = NoBitmap /\ alpha_mask = NoBitmap /\ original_color = NoBitmap
  /\ ascii_str = <<>> /\ output = <<>> /\ gif = NoGif /\ app = NoApp
  /\ image = [w |-> 1, h |-> 2, seed |-> 0]
  /\ width = 1 /\ remove_bg = FALSE /\ pattern_mode = FALSE
  /\ color_mode = "none" /\ chars = <<>>
  /\ \E arg \in CharArgs : char_proc = Construct(arg)

NextChars ==
  \/ SetChars
  \/ ReverseChars
  \/ SortChars
  \/ RemoveSpaces
  \/ AddChars
  \/ ApplyPreset

SpecChars == InitChars /\ [][NextChars]_vars

\* ------------------------------------------------------------------------
\* process_gif: a generator, resumed by its consumer
\* ------------------------------------------------------------------------
\* gif.state: "created" (not started), "rendering" (inside image_to_ascii),
\* "suspended" (at a yield), "finished" (returned), "raised", "closed"
\* (the consumer dropped it).  gif.temp holds the frame numbers k whose
\* temp_frame_<k>.png exists; gif.yielded what the consumer received;
\* gif.requests counts the consumer's next() calls and gif.sought the
\* gif.seek calls.

\* Fault: an empty string is yielded instead of the render.
AfterYield_empty(g, text) ==
  [g EXCEPT !.yielded = Append(@, [k |-> g.frame, text |-> <<>>]),
            !.temp = @ \ {g.frame}, !.state = "suspended"]

\* Fault: the next frame is sought before the current one is yielded.
AfterYield_eager(g, text) ==
  [g EXCEPT !.yielded = Append(@, [k |-> g.frame, text |-> text]),
            !.temp = @ \ {g.frame}, !.state = "suspended",
            !.sought = @ + 1]

\* Fault: the temporary file is removed only after the yield.
AfterYield_keep(g, text) ==
  [g EXCEPT !.yielded = Append(@, [k |-> g.frame, text |-> text]),
            !.state = "suspended"]

\* os.remove(temp_path); yield ascii_frame  (no file in the single-image case)
AfterYield(g, text) ==
  [g EXCEPT !.yielded = Append(@, [k |-> g.frame, text |-> text]),
            !.temp = @ \ {g.frame}, !.state = "suspended"]

\* Fault: a failing frame is skipped and the sequence goes on.
GifFailed_skip(g, e) == [g EXCEPT !.state = "suspended"]

\* except Exception: print, raise -- the generator is finished by the error
GifFailed(g, e) == [g EXCEPT !.state = "raised", !.exc = e]

\* gif.seek(frame); rgb_frame.save(temp_path)
SeekFrame(g, k) ==
  [g EXCEPT !.state = "rendering", !.frame = k, !.temp = @ \cup {k},
            !.sought = @ + 1]

\* the contents of frame k
FrameImage(src, k) == [src EXCEPT !.seed = k % (MaxSeed + 1)]

\* image_to_ascii is entered with fresh locals
EnterRender ==
  /\ pc' = "start" /\ exc' = "none" /\ seg' = NoSeg
  /\ gray_image' = NoBitmap /\ alpha_mask' = NoBitmap
  /\ original_color' = NoBitmap
  /\ ascii_str' = <<>> /\ output' = <<>>

Unchanged_locals ==
  UNCHANGED <<pc, exc, seg, gray_image, alpha_mask, original_color,
              ascii_str, output, image>>

Unchanged_config ==
  UNCHANGED <<width, remove_bg, pattern_mode, color_mode, chars, warnings,
              char_proc, app>>

\* The consumer calls next(): the generator runs up to its next yield.
GifResume ==
  /\ pc = "idle" /\ gif.state \in {"created", "suspended"}
  /\ LET g == [gif EXCEPT !.requests = @ + 1]
         k == IF gif.state = "created" THEN 0 ELSE gif.frame + 1
     IN  IF gif.state = "suspended" /\ (~gif.animated \/ k >= gif.n_frames)
         THEN /\ gif' = [g EXCEPT !.state = "finished"]
              /\ Unchanged_locals
         ELSE IF ~gif.animated
         THEN /\ gif' = [g EXCEPT !.state = "rendering"]
              /\ EnterRender
              /\ UNCHANGED image
         ELSE \E decodes \in BOOLEAN :
                IF decodes
                THEN /\ gif' = SeekFrame(g, k)
                     /\ image' = FrameImage(image, k)
                     /\ EnterRender
                ELSE /\ gif' = GifFailed([g EXCEPT !.frame = k, !.sought = @ + 1],
                                         "DecodeError")
                     /\ Unchanged_locals
  /\ Unchanged_config

\* image_to_ascii returned: remove the temporary file, yield the frame.
GifYield ==
  /\ pc = "done" /\ gif.state = "rendering"
  /\ gif' = AfterYield(gif, output)
  /\ pc' = "idle"
  /\ UNCHANGED <<exc, seg, gray_image, alpha_mask, original_color, ascii_str,
                 output, image>>
  /\ Unchanged_config

\* image_to_ascii raised: the error goes to the consumer.
GifRaise ==
  /\ pc = "error" /\ gif.state = "rendering"
  /\ gif' = GifFailed(gif, exc)
  /\ pc' = "idle"
  /\ UNCHANGED <<exc, seg, gray_image, alpha_mask, original_color, ascii_str,
                 output, image>>
  /\ Unchanged_config

\* The consumer stops iterating and drops the generator.
GifClose ==
  /\ pc = "idle" /\ gif.state = "suspended"
  /\ gif' = [gif EXCEPT !.state = "closed"]
  /\ Unchanged_locals
  /\ Unchanged_config

InitGif ==
  /\ pc = "idle" /\ exc = "none" /\ seg = NoSeg /\ warnings = 0
  /\ gray_image = NoBitmap /\ alpha_mask = NoBitmap /\ original_color = NoBitmap
  /\ ascii_str = <<>> /\ output = <<>>
  /\ char_proc = NewCharProc /\ app = NoApp
  /\ image \in {[w |-> 1, h |-> 2, seed |-> 0], [w |-> 2, h |-> 1, seed |-> 0]}
  /\ width \in 1..2
  /\ remove_bg \in BOOLEAN
  /\ pattern_mode \in BOOLEAN
  /\ color_mode = "none"
  /\ chars \in {<<>>, <<"X">>}
  /\ \E animated \in BOOLEAN, n \in 1..MaxFrames :
       /\ animated => n >= 2
       /\ ~animated => n = 1
       /\ gif = [NoGif EXCEPT !.state = "created", !.animated = animated,
                              !.n_frames = n]

NextGif ==
  \/ GifResume
  \/ GifYield
  \/ GifRaise
  \/ GifClose
  \/ RemoveBackground
  \/ ResizeAndGrayscale
  \/ ConvertToAscii
  \/ ConvertToAsciiWithMask

SpecGif == InitGif /\ [][NextGif]_vars

\* ------------------------------------------------------------------------
\* ASCIIArtGenerator, SettingsManager and FileHandler
\* ------------------------------------------------------------------------
Unchanged_pipeline ==
  UNCHANGED <<pc, exc, image, width, remove_bg, pattern_mode, color_mode,
              chars, seg, warnings, gray_image, alpha_mask, original_color,
              ascii_str, output, char_proc, gif>>

\* _save_settings: the document replaces the file; managers made before
\* the save are of no further interest.
SaveSettings(a, order) ==
  [a EXCEPT !.disk = JsonDump(SettingsToDict(a.settings, order)),
            !.saved = a.settings,
            !.other_made = FALSE, !.other = DefaultSettings]

\* update_ascii_art_settings(width=w): setattr, then _save_settings
UpdateAsciiArtSettings ==
  /\ app.made /\ app.call.phase # "rendering"
  /\ \E w \in AppWidths :
     \E order \in Orders(app.settings.supported_image_formats.v) :
       app' = SaveSettings([app EXCEPT !.settings.width = IntV(w),
                                       !.configured = w, !.updated = w,
                                       !.writer = "update_ascii_art_settings"],
                           order)
  /\ Unchanged_pipeline

\* SettingsManager(config_path) on the same path, later
NewSettingsManager ==
  /\ app.made /\ ~app.other_made
  /\ app' = [app EXCEPT !.other_made = TRUE, !.other = LoadSettings(app.disk)]
  /\ Unchanged_pipeline

CarriageReturn == Ch("\r")

\* Fault: the text is written without its last character.
WriteText_mut(text, platform) ==
  Concat([i \in 1..(Len(text) - 1) |->
            IF text[i] = Newline /\ platform = "nt"
            THEN <<CarriageReturn, Newline>> ELSE <<text[i]>>])

\* open(path, 'w', encoding='utf-8').write(text): in text mode each '\n' is
\* written as os.linesep
WriteText(text, platform) ==
  Concat([i \in 1..Len(text) |->
            IF text[i] = Newline /\ platform = "nt"
            THEN <<CarriageReturn, Newline>> ELSE <<text[i]>>])

\* open(path).read(): universal newlines, '\r\n' and '\r' are read as '\n'
ReadText(data) ==
  LET keep == {i \in 1..Len(data) :
                 ~(i > 1 /\ data[i] = Newline /\ data[i - 1] = CarriageReturn)}
  IN  [k \in 1..Cardinality(keep) |->
         IF data[CHOOSE i \in keep : Cardinality({j \in keep : j <= i}) = k]
              = CarriageReturn
         THEN Newline
         ELSE data[CHOOSE i \in keep : Cardinality({j \in keep : j <= i}) = k]]

\* if metadata:
Truthy(md) == md.t = "dict" /\ DOMAIN md.v # {}

\* The metadata arguments: None, {} and {"test": "metadata"}
Metadatas == {NoneV, DictV(<<>>), DictV([test |-> StrV("metadata")])}

\* FileHandler.save_ascii_art(ascii_art, filename, metadata) on a writable
\* destination
SaveAsciiArtOn(a, text, md) ==
  [a EXCEPT !.out = [exists |-> TRUE, data |-> WriteText(text, a.platform)],
            !.meta = IF Truthy(md)
                     THEN [exists |-> TRUE, doc |-> JsonDump(md.v)]
                     ELSE a.meta,
            !.saved_text = text, !.saved_meta = md]

\* The caller saves the text a process_image call returned.
SaveAsciiArt ==
  /\ app.made /\ app.call.phase = "returned" /\ pc = "idle"
  /\ \E md \in Metadatas : app' = SaveAsciiArtOn(app, app.call.result, md)
  /\ Unchanged_pipeline

\* process_image(image_path, output_path, width, ...) up to the
\* image_to_ascii call: a width argument is stored into the shared
\* ASCIIArtSettings object, whose width is then passed on.
ProcessImageCall ==
  /\ app.made /\ app.call.phase # "rendering" /\ pc = "idle"
  /\ \E width_arg \in {0} \cup AppWidths, output_path \in BOOLEAN :
       /\ app' = [app EXCEPT
                    !.settings.width =
                       IF width_arg # 0 THEN IntV(width_arg) ELSE @,
                    !.writer = IF width_arg # 0 THEN "process_image" ELSE @,
                    !.call = [NoCall EXCEPT !.phase = "rendering",
                                            !.width_arg = width_arg,
                                            !.default = app.configured,
                                            !.output_path = output_path]]
       /\ width' = app'.settings.width.v
  /\ EnterRender
  /\ UNCHANGED <<image, remove_bg, pattern_mode, color_mode, chars, warnings,
                 char_proc, gif>>

\* image_to_ascii returned.  With an output path, _create_metadata is
\* called with keywords it does not have (custom_chars, color_mode,
\* pattern_mode): TypeError, caught, logged and re-raised; nothing is saved.
ProcessImageReturn ==
  /\ app.made /\ app.call.phase = "rendering" /\ pc = "done"
  /\ app' = IF app.call.output_path
            THEN [app EXCEPT !.call.phase = "raised", !.call.exc = "TypeError"]
            ELSE [app EXCEPT !.call.phase = "returned", !.call.result = output]
  /\ pc' = "idle"
  /\ UNCHANGED <<exc, image, width, remove_bg, pattern_mode, color_mode, chars,
                 seg, warnings, gray_image, alpha_mask, original_color,
                 ascii_str, output, char_proc, gif>>

\* image_to_ascii raised: logged and re-raised.
ProcessImageRaise ==
  /\ app.made /\ app.call.phase = "rendering" /\ pc = "error"
  /\ app' = [app EXCEPT !.call.phase = "raised", !.call.exc = exc]
  /\ pc' = "idle"
  /\ UNCHANGED <<exc, image, width, remove_bg, pattern_mode, color_mode, chars,
                 seg, warnings, gray_image, alpha_mask, original_color,
                 ascii_str, output, char_proc, gif>>

\* ASCIIArtGenerator() in a directory whose config.json holds a width.
InitApp ==
  /\ pc = "idle" /\ exc = "none" /\ seg = NoSeg /\ warnings = 0
  /\ gray_image = NoBitmap /\ alpha_mask = NoBitmap /\ original_color = NoBitmap
  /\ ascii_str = <<>> /\ output = <<>>
  /\ char_proc = NewCharProc /\ gif = NoGif
  /\ image = [w |-> 1, h |-> 2, seed |-> 0]
  /\ remove_bg = FALSE
  /\ pattern_mode = FALSE
  /\ color_mode = "foreground"
  /\ chars \in {<<>>, <<"X">>}
  /\ \E w \in AppWidths, platform \in {"posix", "nt"} :
       /\ width = w
       /\ app = [NoApp EXCEPT
                   !.made = TRUE, !.platform = platform, !.configured = w,
                   !.settings.width = IntV(w),
                   !.saved = [DefaultSettings EXCEPT !.width = IntV(w)],
                   !.disk = JsonDump(SettingsToDict(
                              [DefaultSettings EXCEPT !.width = IntV(w)],
                              <<".gif", ".png">>))]

NextApp ==
  \/ UpdateAsciiArtSettings
  \/ NewSettingsManager
  \/ ProcessImageCall
  \/ ResizeAndGrayscale
  \/ ConvertToAscii
  \/ ProcessImageReturn
  \/ ProcessImageRaise
  \/ SaveAsciiArt

SpecApp == InitApp /\ [][NextApp]_vars

\* Background removal on sources up to MaxSegSrc pixels a side.
InitSeg ==
  /\ Fresh
  /\ image \in [w : 1..MaxSegSrc, h : 1..MaxSegSrc, seed : {0}]
  /\ width \in 1..MaxWidth
  /\ remove_bg = TRUE
  /\ pattern_mode = TRUE
  /\ color_mode \in {"none", "both"}
  /\ chars = <<>>

NextSeg == RemoveBackground \/ ResizeAndGrayscale \/ ConvertToAsciiWithMask

SpecSeg == InitSeg /\ [][NextSeg]_vars

\* ------------------------------------------------------------------------
\* Reading the returned string
\* ------------------------------------------------------------------------
KthOf(S, k) == CHOOSE i \in S : Cardinality({j \in S : j <= i}) = k

\* the string without its trailing reset
Body(out) ==
  IF out # <<>> /\ out[Len(out)] = Reset THEN SubSeq(out, 1, Len(out) - 1)
  ELSE out

NewlinesIn(s) == {i \in 1..Len(s) : s[i] = Newline}

\* s.split('\n')[0]
FirstLine(s) ==
  IF NewlinesIn(s) = {} THEN s ELSE SubSeq(s, 1, KthOf(NewlinesIn(s), 1) - 1)

\* s.splitlines()
SplitLines(s) ==
  IF s = <<>> THEN <<>>
  ELSE LET nl == NewlinesIn(s)
           n  == Cardinality(nl) + 1
       IN  [k \in 1..n |->
              SubSeq(s, IF k = 1 THEN 1 ELSE KthOf(nl, k - 1) + 1,
                        IF k = n THEN Len(s) ELSE KthOf(nl, k) - 1)]

IsChar(tok) == tok.t = "char"
IsEscape(tok) == tok.t \in {"fg", "bg"}

\* a row with its escape sequences ignored
Visible(row) == SelectSeq(row, IsChar)

\* the k-th cell of a row: a character with the escapes in front of it
CellAt(row, k) ==
  LET ends == {i \in 1..Len(row) : IsChar(row[i])}
  IN  SubSeq(row, IF k = 1 THEN 1 ELSE KthOf(ends, k - 1) + 1, KthOf(ends, k))

OutRows == SplitLines(Body(output))
Palette == EffChars(chars)
Opaque(r, c) == ~remove_bg \/ PixelAt(alpha_mask, r, c) >= MaskThreshold

\* ------------------------------------------------------------------------
\* Character selection
\* ------------------------------------------------------------------------
\* C1: in gradient mode, for every palette length 2..50 and every intensity
\* 0..255, the index the renderer computes is in 0..N-1 and the lookup never
\* raises IndexError.
C1_IndexInRange ==
  (~pattern_mode /\ Len(Palette) \in 2..MAX_CHARS) =>
    /\ exc # "IndexError"
    /\ \A r \in 1..gray_image.h, c \in 1..gray_image.w :
         /\ CharIndex(PixelAt(gray_image, r, c), Len(Palette)) >= 0
         /\ CharIndex(PixelAt(gray_image, r, c), Len(Palette)) <= Len(Palette) - 1
    /\ pc = "done" => \E i \in 1..Len(Palette) : output[1] = Ch(Palette[i])

C1_Witness ==
  /\ pc = "done" /\ ~pattern_mode
  /\ Len(Palette) = MAX_CHARS
  /\ PixelAt(gray_image, 1, 1) = MaxIntensity
  /\ output = <<Ch(Palette[MAX_CHARS]), Reset>>

\* C2: in gradient mode the character drawn for intensity p is
\* palette[floor(p * (N - 1) / 255)]: the first entry for 0, the last entry
\* for 255, for every N in 2..50.
C2_ExactFloor ==
  (pc = "done" /\ ~pattern_mode) =>
    \A r \in 1..gray_image.h, c \in 1..gray_image.w :
      Opaque(r, c) =>
        Visible(OutRows[r])[c] =
          Ch(Palette[((PixelAt(gray_image, r, c) * (Len(Palette) - 1)) \div 255) + 1])

\* C3: in pattern mode the character drawn at column c (from 0) is
\* palette[c mod len(palette)] whatever the row and the intensity, in the
\* unmasked and the masked renderer.
C3_PatternByColumn ==
  (pc = "done" /\ pattern_mode) =>
    \A r \in 1..gray_image.h, c \in 1..gray_image.w :
      Opaque(r, c) =>
        Visible(OutRows[r])[c] = Ch(Palette[((c - 1) % Len(Palette)) + 1])

C3_Witness ==
  /\ pc = "done" /\ pattern_mode /\ remove_bg
  /\ gray_image.h >= 2 /\ gray_image.w > Len(Palette) /\ Len(Palette) = 2
  /\ PixelAt(gray_image, 1, 3) # PixelAt(gray_image, 2, 3)
  /\ Opaque(1, 3) /\ Opaque(2, 3)
  /\ Visible(OutRows[1])[3] = Ch(Palette[1])
  /\ Visible(OutRows[2])[3] = Ch(Palette[1])
  /\ Visible(OutRows[1])[2] = Ch(Palette[2])

\* ------------------------------------------------------------------------
\* Shape of the output
\* ------------------------------------------------------------------------
\* C4: the rendered output has as many rows as the resized image is high,
\* and every row has as many visible characters as the resized image is
\* wide, in either renderer and any colour mode.
C4_Shape ==
  pc = "done" =>
    /\ gray_image.w = width
    /\ Len(OutRows) = gray_image.h
    /\ \A r \in 1..Len(OutRows) : Len(Visible(OutRows[r])) = gray_image.w

C4_Witness ==
  /\ pc = "done" /\ remove_bg /\ color_mode = "both"
  /\ gray_image.h = 3 /\ gray_image.w = 3
  /\ Len(OutRows) = 3
  /\ Len(OutRows[2]) > 3 /\ Len(Visible(OutRows[2])) = 3

\* C5 as amended: with colour mode none and a requested width w >= 1, the
\* first line of the returned string has length w when the resized image
\* has two rows or more; when it has one row there is no newline and the
\* line is the w characters followed by the four-character reset.
C5_FirstLine ==
  (pc = "done" /\ color_mode = "none") =>
    /\ gray_image.h >= 2 => StrLen(FirstLine(output)) = width
    /\ gray_image.h = 1 => StrLen(FirstLine(output)) = width + 4

C5_Witness ==
  /\ pc = "done" /\ color_mode = "none"
  /\ gray_image.h >= 2 /\ width = 3
  /\ StrLen(FirstLine(output)) = 3

\* C5 as stated: with colour mode none the first line of the returned
\* string has length exactly w, for any image and any width.
C5_FirstLineAlways ==
  (pc = "done" /\ color_mode = "none") => StrLen(FirstLine(output)) = width

\* C6: in the masked renderer a position whose mask value is below 128 is
\* drawn as one space with no escape sequence, whatever the colour mode,
\* the selection mode and the intensity.
C6_MaskedSpace ==
  (pc = "done" /\ remove_bg) =>
    \A r \in 1..gray_image.h, c \in 1..gray_image.w :
      PixelAt(alpha_mask, r, c) < MaskThreshold =>
        CellAt(OutRows[r], c) = <<Ch(" ")>>

C6_Witness ==
  /\ pc = "done" /\ remove_bg /\ color_mode = "both"
  /\ gray_image.w >= 2 /\ gray_image.h >= 1
  /\ PixelAt(alpha_mask, 1, 1) = 127 /\ PixelAt(alpha_mask, 1, 2) = 128
  /\ CellAt(OutRows[1], 1) = <<Ch(" ")>>
  /\ Len(CellAt(OutRows[1], 2)) = 3

\* C7: mode none inserts no escape sequence; before each non-space character
\* modes foreground and background put exactly one escape and mode both
\* exactly two; the output holds exactly one reset, as its last token.
EscapesOf(mode) ==
  IF mode = "none" THEN <<>>
  ELSE IF mode = "foreground" THEN <<"fg">>
  ELSE IF mode = "background" THEN <<"bg">>
  ELSE <<"fg", "bg">>

C7_Escapes ==
  pc = "done" =>
    /\ output[Len(output)] = Reset
    /\ Cardinality({i \in 1..Len(output) : output[i] = Reset}) = 1
    /\ color_mode = "none" => \A i \in 1..Len(output) : ~IsEscape(output[i])
    /\ \A r \in 1..Len(OutRows) : \A k \in 1..Len(Visible(OutRows[r])) :
         LET cell == CellAt(OutRows[r], k)
         IN  cell[Len(cell)].c # " " =>
               /\ Len(cell) = Len(EscapesOf(color_mode)) + 1
               /\ \A j \in 1..(Len(cell) - 1) : cell[j].t = EscapesOf(color_mode)[j]

C7_Witness ==
  /\ pc = "done" /\ color_mode = "both" /\ ~remove_bg
  /\ gray_image.h >= 2
  /\ Len(CellAt(OutRows[2], 1)) = 3
  /\ CellAt(OutRows[2], 1)[3].c # " "
  /\ output[Len(output)] = Reset

\* ------------------------------------------------------------------------
\* Resize
\* ------------------------------------------------------------------------
\* num / den rounded to the nearest integer, ties to even (Python's round)
RoundHalfEven(num, den) ==
  LET q  == num \div den
      r2 == 2 * (num % den)
  IN  IF r2 > den THEN q + 1
      ELSE IF r2 < den THEN q
      ELSE IF q % 2 = 0 THEN q ELSE q + 1

C8_ShortOfWhole ==
  /\ pc = "resized"
  /\ image.w = 3 /\ image.h = 13 /\ width = 54
  /\ gray_image.h = 116

ExactLevel(v) == (v * 5) \div 255
ExactCode(rgb) ==
  16 + 36 * ExactLevel(rgb[1]) + 6 * ExactLevel(rgb[2]) + ExactLevel(rgb[3])
Nudged(rgb) == [i \in 1..3 |-> IF rgb[i] + 20 > 255 THEN 255 ELSE rgb[i] + 20]

\* C9: the colour code of an RGB triple is 16 + 36 * floor(R * 5 / 255)
\* + 6 * floor(G * 5 / 255) + floor(B * 5 / 255), each level in 0..5 and the
\* code in 16..231, for the foreground (and the background of mode
\* background) and for the background of mode both, taken from the triple
\* raised by 20 per channel and clamped.
C9_ColorCode ==
  pc = "done" =>
    LET rgb  == PixelAt(original_color, 1, 1)
        cell == CellAt(OutRows[1], 1)
    IN  /\ \A i \in 1..3 :
             /\ ColorLevel(rgb[i]) \in 0..5
             /\ ColorLevel(BgRgb(rgb)[i]) \in 0..5
        /\ \A k \in 1..Len(cell) :
             /\ cell[k].t = "fg" => cell[k].n = ExactCode(rgb)
             /\ cell[k].t = "bg" =>
                  cell[k].n = ExactCode(IF color_mode = "both" THEN Nudged(rgb)
                                        ELSE rgb)
             /\ IsEscape(cell[k]) => cell[k].n \in 16..231

C9_Witness ==
  /\ pc = "done" /\ color_mode = "both"
  /\ PixelAt(original_color, 1, 1) = <<255, 235, 40>>
  /\ output = <<Esc(FALSE, 220), Esc(TRUE, 227), Ch("#"), Reset>>

\* C10: in mode both the background colour is the RGB triple raised by 20
\* per channel and clamped to 0..255, and its colour code differs from the
\* foreground's for every RGB triple.
C10_Distinct ==
  (pc = "done" /\ color_mode = "both") =>
    LET rgb  == PixelAt(original_color, 1, 1)
        cell == CellAt(OutRows[1], 1)
    IN  /\ cell[2] = Esc(TRUE, ExactCode(Nudged(rgb)))
        /\ cell[1].n # cell[2].n

\* ------------------------------------------------------------------------
\* Background removal
\* ------------------------------------------------------------------------
\* C11: when the segmentation call fails, _remove_background raises nothing:
\* it prints a warning and returns the original image with a mask of the
\* same size whose every pixel is 255.
C11_FallbackOnFailure ==
  seg.status = "failed" =>
    /\ warnings = 1
    /\ seg.w = image.w /\ seg.h = image.h /\ seg.seed = image.seed
    /\ \A i \in 1..Len(SegMask(seg)) : SegMask(seg)[i] = 255
    /\ pc = "segmented" => exc = "none"
    /\ pc \in {"resized", "done"} =>
         /\ alpha_mask.w = gray_image.w /\ alpha_mask.h = gray_image.h
         /\ \A r \in 1..alpha_mask.h, c \in 1..alpha_mask.w :
              PixelAt(alpha_mask, r, c) = 255

C11_Witness ==
  /\ pc = "resized" /\ seg.status = "failed" /\ warnings = 1
  /\ alpha_mask.h >= 2 /\ alpha_mask.w >= 2
  /\ PixelAt(alpha_mask, 2, 2) = 255

\* What the same call renders with remove_bg = False: the unmasked renderer
\* on the resized source image.
PlainBitmapHeight == ResizeHeight(image.w, image.h, EffWidth(width))

PlainCells ==
  [r \in 1..PlainBitmapHeight |-> [c \in 1..EffWidth(width) |->
     PlainCell(r, c,
               [w |-> EffWidth(width), h |-> PlainBitmapHeight,
                px |-> Rotate(GraySamples, image.seed)],
               [w |-> EffWidth(width), h |-> PlainBitmapHeight,
                px |-> Rotate(ColorSamples, image.seed)],
               Palette, pattern_mode, color_mode)]]

\* C12: when background removal is requested and the segmentation call
\* fails, image_to_ascii returns what the same call returns with
\* remove_bg = False (and raises what that call raises): a full-size render
\* with no position blanked by the mask.
C12_FallbackEqualsPlain ==
  (remove_bg /\ seg.status = "failed") =>
    /\ pc = "done" =>
         /\ FirstError(PlainCells, PlainBitmapHeight, EffWidth(width)) = "none"
         /\ output = Finish(JoinRows(PlainCells, PlainBitmapHeight, EffWidth(width)))
    /\ pc = "error" =>
         \/ exc = "ValueError" /\ PlainBitmapHeight = 0
         \/ exc = FirstError(PlainCells, PlainBitmapHeight, EffWidth(width))

C12_Witness ==
  /\ pc = "done" /\ remove_bg /\ seg.status = "failed" /\ warnings = 1
  /\ color_mode = "foreground" /\ ~pattern_mode
  /\ gray_image.h >= 2 /\ gray_image.w >= 2
  /\ Len(OutRows) = gray_image.h
  /\ \A r \in 1..gray_image.h, c \in 1..gray_image.w :
       Len(CellAt(OutRows[r], c)) = 2

\* ------------------------------------------------------------------------
\* process_gif
\* ------------------------------------------------------------------------
\* What image_to_ascii returns for the current image with remove_bg = False.
DirectRender == Finish(JoinRows(PlainCells, PlainBitmapHeight, EffWidth(width)))

\* C15: for a source that is not multi-frame the generator yields exactly
\* one element, the result of one image_to_ascii call on the source with the
\* same arguments, and then returns; it writes no temporary file and seeks
\* no frame, and the only error it can raise is the one that call raises.
C15_SingleElement ==
  (gif.state # "none" /\ ~gif.animated) =>
    /\ gif.temp = {} /\ gif.sought = 0 /\ Len(gif.yielded) <= 1
    /\ gif.state \in {"suspended", "finished", "closed"} =>
         /\ Len(gif.yielded) = 1
         /\ gif.yielded[1].text = output
         /\ exc = "none" /\ gif.exc = "none"
         /\ ~remove_bg => output = DirectRender
    /\ gif.state = "finished" => gif.requests = 2
    /\ gif.state = "raised" =>
         /\ gif.yielded = <<>>
         /\ gif.exc = exc /\ exc \notin {"none", "DecodeError"}

C15_Witness ==
  /\ ~gif.animated /\ gif.state = "finished"
  /\ Len(gif.yielded) = 1 /\ Len(gif.yielded[1].text) >= 2
  /\ ~remove_bg

\* C16: for a multi-frame source the elements yielded are the renders of
\* frames 0, 1, 2, ... in that order, n of them when the generator returns,
\* and a frame is sought only on the consumer's request: while the generator
\* is suspended after frame k, exactly k + 1 frames have been sought.
C16_InOrderLazily ==
  gif.animated =>
    /\ \A i \in 1..Len(gif.yielded) : gif.yielded[i].k = i - 1
    /\ gif.sought <= gif.requests
    /\ gif.state = "rendering" =>
         gif.frame = Len(gif.yielded) /\ gif.sought = Len(gif.yielded) + 1
    /\ gif.state \in {"suspended", "closed"} =>
         gif.frame = Len(gif.yielded) - 1 /\ gif.sought = Len(gif.yielded)
    /\ gif.state = "suspended" =>
         /\ gif.yielded[Len(gif.yielded)].text = output
         /\ image.seed = gif.frame % (MaxSeed + 1)
         /\ ~remove_bg => output = DirectRender
    /\ gif.state = "finished" =>
         /\ Len(gif.yielded) = gif.n_frames
         /\ gif.requests = gif.n_frames + 1
         /\ gif.exc = "none"

C16_Witness ==
  /\ gif.animated /\ gif.state = "finished" /\ gif.n_frames = MaxFrames
  /\ Len(gif.yielded) = MaxFrames /\ gif.yielded[MaxFrames].k = MaxFrames - 1

\* C17: when seeking or rendering frame k of a multi-frame source fails, the
\* generator raises that error to the consumer with the elements of frames
\* 0..k-1 unchanged, and from then on it yields nothing.
C17_FailureEndsSequence ==
  [][gif.animated =>
       /\ (gif.state = "rendering" /\ pc = "error") =>
            /\ gif'.state = "raised" /\ gif'.exc = exc
            /\ gif'.yielded = gif.yielded
       /\ (gif.state # "raised" /\ gif'.state = "raised") =>
            /\ gif'.exc # "none"
            /\ gif'.yielded = gif.yielded
            /\ Len(gif'.yielded) = gif'.frame
       /\ gif.state = "raised" => gif' = gif]_vars

C17_Witness ==
  /\ gif.animated /\ gif.state = "raised" /\ gif.frame = 1
  /\ Len(gif.yielded) = 1 /\ gif.yielded[1].k = 0
  /\ gif.exc \notin {"none", "DecodeError"}

\* C18: whenever the generator is suspended at a yield, has returned or has
\* been dropped by the consumer, no temporary frame file exists; the only
\* file that ever exists is the one of the frame being rendered.
C18_TempRemovedAtYield ==
  /\ gif.temp \subseteq {gif.frame}
  /\ gif.state \in {"suspended", "closed", "finished"} => gif.temp = {}

C18_Witness ==
  /\ gif.animated /\ gif.state = "closed" /\ gif.n_frames >= 2
  /\ Len(gif.yielded) = 1 /\ gif.temp = {}

\* ------------------------------------------------------------------------
\* Validation
\* ------------------------------------------------------------------------
\* C13: a palette of length 1 is rejected before rendering with a
\* ValidationError, in gradient and in pattern mode; nothing is rendered.
C13_SingleCharRejected ==
  Len(chars) = 1 =>
    /\ pc \in {"start", "error"}
    /\ pc = "error" => exc = "ValidationError"

\* C14: an image that violates the minimum pixel dimensions (10 x 10) is
\* reported as a validation failure before any processing: image_to_ascii
\* performs no background removal, resize or render step on it.
C14_SmallImageRejected ==
  (image.w < MIN_SIZE \/ image.h < MIN_SIZE) =>
    /\ pc \in {"start", "error"}
    /\ pc = "error" => exc = "ValidationError"

\* C19: the grayscale bitmap, the colour bitmap and the opacity mask handed
\* to the renderer have the same width and height, whatever image the
\* segmentation collaborator returned, and the renderer never indexes
\* outside the colour bitmap or the mask.
C19_SameSize ==
  (gray_image.h > 0 /\ original_color.h > 0) =>
    /\ original_color.w = gray_image.w /\ original_color.h = gray_image.h
    /\ remove_bg => alpha_mask.w = gray_image.w /\ alpha_mask.h = gray_image.h
    /\ exc # "IndexError"

\* ------------------------------------------------------------------------
\* CharacterProcessor palette
\* ------------------------------------------------------------------------
\* C20: after any sequence of CharacterProcessor operations the palette
\* get_chars returns has at least 2 and at most 50 characters.
C20_LengthBounds ==
  char_proc.alive =>
    Len(char_proc.chars) >= MIN_CHARS /\ Len(char_proc.chars) <= MAX_CHARS

\* ------------------------------------------------------------------------
\* Files and settings
\* ------------------------------------------------------------------------
\* C24: after save_ascii_art(text, path, metadata), reading the file gives
\* text back (on POSIX the file holds text itself), and when metadata is a
\* non-empty dictionary the .meta.json file exists and holds its JSON
\* document.
C24_SavedVerbatim ==
  app.out.exists =>
    /\ ReadText(app.out.data) = app.saved_text
    /\ app.platform = "posix" => app.out.data = app.saved_text
    /\ Truthy(app.saved_meta) =>
         /\ app.meta.exists
         /\ app.meta.doc = JsonDump(app.saved_meta.v)

C24_Witness ==
  /\ app.out.exists /\ app.platform = "nt" /\ app.meta.exists
  /\ Truthy(app.saved_meta)
  /\ Len(app.saved_text) >= 4
  /\ \E i \in 1..Len(app.saved_text) : app.saved_text[i] = Newline
  /\ Len(app.out.data) > Len(app.saved_text)

\* C25: after update_ascii_art_settings(width=w) the manager's width is w
\* until something else stores a width, the file holds the settings as they
\* were saved, and a SettingsManager constructed afterwards on the same path
\* has width w and every setting equal to the saved one, value and type.
C25_SaveLoadRoundTrip ==
  /\ app.writer = "update_ascii_art_settings" =>
       app.settings.width = IntV(app.updated)
  /\ app.made => LoadSettings(app.disk) = app.saved
  /\ app.other_made =>
       /\ app.other = app.saved
       /\ app.updated # 0 => app.other.width = IntV(app.updated)

C25_Witness ==
  /\ app.other_made /\ app.updated = 3 /\ app.configured = 3
  /\ app.other.width = IntV(3)
  /\ app.other.max_image_size = TupleV(<<5000, 5000>>)
  /\ app.disk.max_image_size.t = "array"

\* C26: a process_image call that passes no width renders at the
\* configured default width, whatever widths earlier calls on the same
\* generator passed.
C26_NoWidthLeak ==
  (app.call.phase # "idle" /\ app.call.width_arg = 0) =>
    width = app.call.default

\* C30: a process_image call with an output path whose render succeeded
\* returns the text, having written it to the path together with its
\* metadata document; it does not raise.
C30_OutputPathSaves ==
  (app.call.output_path /\ app.call.phase \in {"returned", "raised"}
     /\ exc = "none") =>
    /\ app.call.phase = "returned"
    /\ app.call.result = output
    /\ app.out.exists /\ ReadText(app.out.data) = output
    /\ app.meta.exists

\* C29: for a source of at least 10 pixels a side and a requested width of
\* at least 1, the resize step succeeds and the resized bitmap has at least
\* one row.
C29_AtLeastOneRow ==
  (image.w >= MIN_SIZE /\ image.h >= MIN_SIZE /\ width >= 1 /\ pc # "start") =>
    /\ pc = "resized"
    /\ gray_image.h >= 1

\* C27: once the generator has ended, by returning after the last frame or
\* by raising, no temporary frame file it created is left.
C27_NoTempLeft ==
  gif.state \in {"finished", "raised"} => gif.temp = {}

\* The last call was CharacterProcessor(s) or set_chars(s) with a string s.
GaveString ==
  char_proc.call.op \in {"__init__", "set_chars"} /\ ~char_proc.call.none

C22_NoDuplicates ==
  (char_proc.alive /\ char_proc.call.op = "__init__" /\ ~char_proc.call.none) =>
    /\ \A i \in 1..Len(char_proc.chars) :
         \E j \in 1..Len(char_proc.call.s) :
           char_proc.chars[i] = char_proc.call.s[j]
    /\ \A i, j \in 1..Len(char_proc.chars) :
         char_proc.chars[i] = char_proc.chars[j] => i = j

\* C23: CharacterProcessor(s) and set_chars(s) with len(s) < 2 or
\* len(s) > 50 raise ValidationError; the constructor then gives no object,
\* and set_chars leaves the palette and the default as they were.
C23_RejectedUnchanged ==
  (GaveString /\ (Len(char_proc.call.s) < MIN_CHARS
                  \/ Len(char_proc.call.s) > MAX_CHARS)) =>
    /\ char_proc.exc = "ValidationError"
    /\ char_proc.chars = char_proc.call.before
    /\ char_proc.call.op = "__init__" => ~char_proc.alive

C23_Witness ==
  /\ char_proc.call.op = "set_chars" /\ ~char_proc.call.none
  /\ Len(char_proc.call.s) = 1
  /\ char_proc.exc = "ValidationError"
  /\ char_proc.chars = <<"b", "a">>

\* C28: set_chars(None) sets the palette to "@#S%?*+;:,." whatever was
\* done to the processor before.
C28_DefaultRestored ==
  (char_proc.call.op = "set_chars" /\ char_proc.call.none) =>
    char_proc.chars = DEFAULT_CHARS

====
